---- MODULE Spec2Model ----
(***************************************************************************)
(* ChatRequestParser.parseChatRequest                                      *)
(* (src/vs/workbench/contrib/pinnedContext/common/pinnedContextContextKeys.ts) *)
(* as a state machine.  A message is a sequence of one-character strings;  *)
(* offsets are 0-based as in the source, sequence indices are offset + 1.  *)
(* Further sections model CSEventHandler and SidecarCompletionProvider     *)
(* (src/vs/platform/codestoryAccount/common/csAccount.ts) and              *)
(* AideProbeSymbolInfo (src/vs/workbench/contrib/aideProbe/browser/).      *)
(***************************************************************************)
EXTENDS Integers, Sequences, FiniteSets, TLC

\* -------------------------------------------------------------------------
\* Bounds of the model
\* -------------------------------------------------------------------------
\* most tokens concatenated into one message of Spec
MaxTokens == 4
\* most tokens concatenated into one message of SpecLong
MaxLongTokens == 5
\* most phrases concatenated into one message of SpecRefs
MaxPhrases == 3
\* most changes of the session's reference list during one parse
MaxMutations == 1
\* most tokens concatenated into one message of SpecLines
MaxLineTokens == 3
\* most tokens concatenated into each message of SpecTwo
MaxCallTokens == 2
\* most calls of handleAgentCodeEdit
MaxEdits == 2
MaxLine == 1
MaxOps == 3
MaxCalls == 3
MaxTime == 1200
MaxInvocations == 2
MaxChunks == 2
MaxWidgetOps == 5

\* -------------------------------------------------------------------------
\* State
\* -------------------------------------------------------------------------
VARIABLES
    message,      \* the message handed to parseChatRequest
    sessionRefs,  \* the session's dynamic references: start position -> payload
    mutations,    \* the changes made to sessionRefs so far
    pc,           \* "idle", "scan", "awaitCall", "awaitReturn", "done", "rejected", "threw"
    parts,        \* const parts (line 37)
    references,   \* const references (line 38)
    i,            \* the loop index (line 42)
    lineNumber,   \* line 40
    column,       \* line 41
    awaited,      \* the part the awaited matcher returns (NoPart: it declines)
    refReads,     \* calls of getDynamicReferences made so far
    subLog,       \* the calls of provideSlashCommands so far and their outcomes
    waiting,      \* the locals of a second invocation while this one runs
    \* CSEventHandler, usage events
    persisted,    \* globalState value of 'codestory.usageEvents': event numbers
    byReference,  \* whether globalState keeps the array it is handed, uncopied
    chains,       \* per accepted edit: its sendUsageEventsWithRetry chain
    edits,        \* calls of handleAgentCodeEdit so far
    accepted,     \* per event: the batches holding it the server answered ok
    lastReset,    \* the latest globalState.update(USAGE_EVENTS_KEY, [])
    \* CSEventHandler, recording
    currentSession, \* this._currentSession
    sinceReset,   \* the recording calls made since _currentSession was last emptied
    returned,     \* what the latest stopRecording returned
    lastOp,       \* the latest recording call and the session it found
    ops,          \* recording calls so far
    \* SidecarCompletionProvider, debouncing
    now,          \* the time in ms
    debouncing,   \* static debouncing
    lastRequestId, \* static lastRequestId (0: null)
    timers,       \* the pending timers of duration DEBOUNCE_DELAY, in firing order
    calls,        \* per call of checkRequestPossible: when, in which window, its result
    made,         \* calls of checkRequestPossible so far
    windows,      \* debounce windows opened so far
    \* SidecarCompletionProvider, provideInlineCompletionItems
    invocations,  \* per invocation: where it stands, its token, what it called
    loading,      \* this.loading
    statusLoading, \* the status bar shows the loading status
    flyingRequestController, \* the invocation whose AbortController is held (0: none)
    \* AideProbeSymbolInfo
    isVisible,    \* "undefined", "true" or "false"
    list,         \* this.list: whether it is defined, and the widget's elements
    viewModel,    \* this.viewModel
    activeSymbolInfo, \* this.activeSymbolInfo
    resolved,     \* the elements whose symbol promise has resolved
    pending,      \* the calls of openSymbolInfoReference waiting at line 129, in call order
    lastChanged,  \* the latest argument of explanationService.changeActiveBreakdown
    lastWidgetOp, \* the latest call of show, hide or updateSymbolInfo and what it found
    widgetOps     \* calls made on the widget so far

parserVars == <<message, sessionRefs, mutations, pc, parts, references, i, lineNumber,
                column, awaited, refReads, subLog, waiting>>

usageVars == <<persisted, byReference, chains, edits, accepted, lastReset>>

recordVars == <<currentSession, sinceReset, returned, lastOp, ops>>

debounceVars == <<now, debouncing, lastRequestId, timers, calls, made, windows>>

completionVars == <<invocations, loading, statusLoading, flyingRequestController>>

symbolInfoVars == <<isVisible, list, viewModel, activeSymbolInfo, resolved, pending,
                    lastChanged, lastWidgetOp, widgetOps>>

\* everything the parser does not touch
otherVars == <<usageVars, recordVars, debounceVars, completionVars, symbolInfoVars>>

\* everything the usage-event sender does not touch
aroundUsage == <<parserVars, recordVars, debounceVars, completionVars, symbolInfoVars>>

\* everything the recording does not touch
aroundRecord == <<parserVars, usageVars, debounceVars, completionVars, symbolInfoVars>>

\* everything checkRequestPossible does not touch
aroundDebounce == <<parserVars, usageVars, recordVars, completionVars, symbolInfoVars>>

\* everything provideInlineCompletionItems does not touch
aroundCompletion == <<parserVars, usageVars, recordVars, debounceVars, symbolInfoVars>>

\* everything AideProbeSymbolInfo does not touch
aroundSymbolInfo == <<parserVars, usageVars, recordVars, debounceVars, completionVars>>

vars == <<parserVars, otherVars>>

\* -------------------------------------------------------------------------
\* Character classes of the regular expressions (lines 24-27)
\* -------------------------------------------------------------------------
\* \w
WordChars == {"a", "c", "s", "v", "x", "y", "1", "_"}
\* \d
DigitChars == {"1"}
\* \s, also what String.prototype.trim removes
WhitespaceChars == {" ", "\n"}
\* [\w_\-]
NameChars == WordChars \cup {"-"}
\* [\w_\-\.]
ArgChars == NameChars \cup {"."}

chatAgentLeader == "!"
chatFileVariableLeader == "#"
chatSubcommandLeader == "/"

Max(S) == CHOOSE x \in S : \A y \in S : y <= x
Min(S) == CHOOSE x \in S : \A y \in S : x <= y

\* message.slice(from, to) with 0-based offsets, from and to within 0..length
Slice(s, from, to) == IF from >= to THEN <<>> ELSE SubSeq(s, from + 1, to)

\* every text taken for blank
NotBlank_Never(s) == FALSE

\* text.trim() !== ''
NotBlank(s) == \E k \in 1..Len(s) : s[k] \notin WhitespaceChars

\* number of consecutive characters of class cls starting at index from
RECURSIVE RunLen(_, _, _)
RunLen(s, from, cls) ==
    IF from <= Len(s) /\ s[from] \in cls THEN 1 + RunLen(s, from + 1, cls) ELSE 0

IsWordAt(s, p) == p >= 1 /\ p <= Len(s) /\ s[p] \in WordChars

\* the lookahead (?=(\s|$|\b)) evaluated after index p of s
Lookahead(s, p) ==
    \/ p = Len(s)
    \/ s[p + 1] \in WhitespaceChars
    \/ IsWordAt(s, p) # IsWordAt(s, p + 1)

NoMatch == [index |-> 0, full |-> 0, name |-> <<>>, arg |-> <<>>]

\* the pattern  leader[cls]{min,}(?=(\s|$|\b))  tried at index k of s: the
\* greedy quantifier backtracks to the longest run the lookahead accepts
MatchNameAt(s, k, leader, min) ==
    IF k > Len(s) \/ s[k] # leader THEN NoMatch
    ELSE LET run == RunLen(s, k + 1, NameChars)
             ok == {n \in min..run : Lookahead(s, k + n)}
         IN IF ok = {} THEN NoMatch
            ELSE [index |-> k, full |-> 1 + Max(ok),
                  name |-> SubSeq(s, k + 1, k + Max(ok)), arg |-> <<>>]

\* agentReg = /^!([\w_\-]*)(?=(\s|$|\b))/i
agentReg(s) == MatchNameAt(s, 1, chatAgentLeader, 0)

\* the pattern with the optional group (:\d+)? left out
variableReg_NoArgument(s) ==
    IF Len(s) = 0 \/ s[1] # chatFileVariableLeader THEN NoMatch
    ELSE LET ok == {n \in 1..RunLen(s, 2, NameChars) : Lookahead(s, 1 + n)}
         IN IF ok = {} THEN NoMatch
            ELSE [index |-> 1, full |-> 1 + Max(ok),
                  name |-> SubSeq(s, 2, 1 + Max(ok)), arg |-> <<>>]

\* variableReg = /^#([\w_\-]+)(:\d+)?(?=(\s|$|\b))/i : the longest name, then
\* the optional group with the longest digits the lookahead accepts, then
\* the name without the group
variableReg(s) ==
    IF Len(s) = 0 \/ s[1] # chatFileVariableLeader THEN NoMatch
    ELSE LET run == RunLen(s, 2, NameChars)
             WithArg(n) ==
                 IF 1 + n < Len(s) /\ s[n + 2] = ":"
                 THEN {m \in 1..RunLen(s, n + 3, DigitChars) : Lookahead(s, n + 2 + m)}
                 ELSE {}
             ok == {n \in 1..run : WithArg(n) # {} \/ Lookahead(s, 1 + n)}
         IN IF ok = {} THEN NoMatch
            ELSE LET n == Max(ok)
                     m == IF WithArg(n) # {} THEN 1 + Max(WithArg(n)) ELSE 0
                 IN [index |-> 1, full |-> 1 + n + m,
                     name |-> SubSeq(s, 2, 1 + n),
                     arg |-> SubSeq(s, n + 2, n + 1 + m)]

\* slashReg = /\/([\w_\-]+)(?=(\s|$|\b))/i : not anchored, String.match
\* returns the first index of the remainder at which the pattern matches
slashReg(s) ==
    LET at == {k \in 1..Len(s) : MatchNameAt(s, k, chatSubcommandLeader, 1) # NoMatch}
    IN IF at = {} THEN NoMatch ELSE MatchNameAt(s, Min(at), chatSubcommandLeader, 1)

\* the pattern of variableWithArgReg tried at index k of s
MatchVariableWithArgAt(s, k) ==
    IF k > Len(s) \/ s[k] # "#" THEN NoMatch
    ELSE LET run == RunLen(s, k + 1, NameChars)
             Args(n) ==
                 IF k + n < Len(s) /\ s[k + n + 1] = ":"
                 THEN {m \in 1..RunLen(s, k + n + 2, ArgChars) : Lookahead(s, k + n + 1 + m)}
                 ELSE {}
             ok == {n \in 1..run : Args(n) # {}}
         IN IF ok = {} THEN NoMatch
            ELSE LET n == Max(ok)
                     m == Max(Args(n))
                 IN [index |-> k, full |-> n + m + 2,
                     name |-> SubSeq(s, k + 1, k + n),
                     arg |-> SubSeq(s, k + n + 2, k + n + 1 + m)]

\* variableWithArgReg = /\#([\w_\-]+):([\w_\-\.]+)(?=(\s|$|\b))/i : not anchored
variableWithArgReg(s) ==
    LET at == {k \in 1..Len(s) : MatchVariableWithArgAt(s, k) # NoMatch}
    IN IF at = {} THEN NoMatch ELSE MatchVariableWithArgAt(s, Min(at))

\* -------------------------------------------------------------------------
\* The services the parser consults (section 6 of the specification)
\* -------------------------------------------------------------------------
\* names the agent service resolves: agentService.getAgent(name)
Agents == {<<"a">>}
\* names the variable service knows: variableService.hasVariable(name)
Variables == {<<"v">>}
\* commands of slashCommandService.getCommands()
SlashCommands == {<<"s">>}
\* names an agent may answer provideSlashCommands with
SubCommandNames == {<<"c">>, <<"s">>}
\* start positions <<line, column>> a dynamic reference may be anchored at
RefPositions == {<<1, 1>>, <<1, 7>>}
\* payloads of dynamic references; NoData marks "no record at this position"
RefData == {"d1", "d2"}
NoData == "none"

getAgent(name) == name \in Agents
hasVariable(name) == name \in Variables
getCommands == SlashCommands

\* -------------------------------------------------------------------------
\* Parts (csChatParserTypes): offset range, editor range and payload
\* -------------------------------------------------------------------------
\* new Range(...): the editor range constructor orders its two positions
Range(sl, sc, el, ec) ==
    IF sl > el \/ (sl = el /\ sc > ec)
    THEN [startLineNumber |-> el, startColumn |-> ec, endLineNumber |-> sl, endColumn |-> sc]
    ELSE [startLineNumber |-> sl, startColumn |-> sc, endLineNumber |-> el, endColumn |-> ec]

NewPart(kind, start, endExclusive, editorRange, name, arg, data, text) ==
    [kind |-> kind, start |-> start, endExclusive |-> endExclusive,
     editorRange |-> editorRange, name |-> name, arg |-> arg, data |-> data,
     text |-> text]

\* "undefined": a matcher that declines
NoPart == NewPart("none", 0, 0, Range(1, 1, 1, 1), <<>>, <<>>, NoData, <<>>)

\* the part a matcher builds for a match of length full at offset, on one line
MatchedPart(kind, offset, line, col, full, name, arg, data) ==
    NewPart(kind, offset, offset + full, Range(line, col, line, col + full),
            name, arg, data, <<>>)

ChatRequestTextPart(start, endExclusive, editorRange, text) ==
    NewPart("Text", start, endExclusive, editorRange, <<>>, <<>>, NoData, text)

HasKind(ps, kind) == \E k \in 1..Len(ps) : ps[k].kind = kind

\* previousPart?.range.endExclusive ?? 0
PreviousPartEnd(ps) == IF Len(ps) = 0 THEN 0 ELSE ps[Len(ps)].endExclusive
PreviousPartEndLine(ps) == IF Len(ps) = 0 THEN 1 ELSE ps[Len(ps)].editorRange.endLineNumber
PreviousPartEndCol(ps) == IF Len(ps) = 0 THEN 1 ELSE ps[Len(ps)].editorRange.endColumn

\* -------------------------------------------------------------------------
\* The matchers
\* -------------------------------------------------------------------------
\* line 112: only one agent allowed
AgentAlreadyUsed(ps) == HasKind(ps, "Agent")

\* the test of line 118 left out
AgentNotFirst_Never(ps) == FALSE

\* line 118: the agent must come first
AgentNotFirst(ps) ==
    \E k \in 1..Len(ps) :
        \/ ps[k].kind = "Text" /\ NotBlank(ps[k].text)
        \/ ps[k].kind # "Agent"

tryToParseAgent(remaining, fullMessage, offset, line, col, ps) ==
    LET m == agentReg(remaining) IN
    IF m = NoMatch THEN NoPart
    ELSE IF ~getAgent(m.name) THEN NoPart
    ELSE IF AgentAlreadyUsed(ps) THEN NoPart
    ELSE IF AgentNotFirst(ps) THEN NoPart
    ELSE IF NotBlank(Slice(fullMessage, PreviousPartEnd(ps), offset)) THEN NoPart
    ELSE MatchedPart("Agent", offset, line, col, m.full, m.name, <<>>, NoData)

tryToParseVariable(remaining, offset, line, col) ==
    LET m == variableReg(remaining) IN
    IF m = NoMatch THEN NoPart
    ELSE IF hasVariable(m.name)
         THEN MatchedPart("Variable", offset, line, col, m.full, m.name, m.arg, NoData)
         ELSE NoPart

\* the lookup made in the session's list as it is now, not in the list read
\* at the start of the parse
RefAtThisPosition_Live(refs, line, col) ==
    IF <<line, col>> \in DOMAIN sessionRefs THEN sessionRefs[<<line, col>>] ELSE NoData

\* lines 207-209: references.find(r => r starts at this position); refs maps
\* a start position to the payload of the first record anchored there
RefAtThisPosition(refs, line, col) ==
    IF <<line, col>> \in DOMAIN refs THEN refs[<<line, col>>] ELSE NoData

tryToParseDynamicVariable(remaining, offset, line, col, refs) ==
    LET m == variableWithArgReg(remaining) IN
    IF m = NoMatch THEN NoPart
    ELSE IF RefAtThisPosition(refs, line, col) # NoData
         THEN MatchedPart("DynamicReference", offset, line, col, m.full, m.name, m.arg,
                          RefAtThisPosition(refs, line, col))
         ELSE NoPart

\* line 156: only one slash command allowed
SlashAlreadyUsed(ps) == HasKind(ps, "SlashCommand")

\* the agent part overlooked: every command goes to the standalone registry
UsedAgent_None(ps) == FALSE

\* line 165: parts.find(p => p instanceof ChatRequestAgentPart)
UsedAgent(ps) == HasKind(ps, "Agent")

\* the test of line 168 left out
SlashNotAfterAgent_Never(ps) == FALSE

\* line 168: the slash command must come immediately after the agent
SlashNotAfterAgent(ps) ==
    \E k \in 1..Len(ps) :
        \/ ps[k].kind = "Text" /\ NotBlank(ps[k].text)
        \/ ps[k].kind # "Agent" /\ ps[k].kind # "Text"

\* tryToParseSlashCommand up to its return or up to the call of
\* provideSlashCommands: "return" with the part it returns, or "call" with
\* the part it will return when the answer holds the command
SlashCommandStep(remaining, fullMessage, offset, line, col, ps) ==
    LET m == slashReg(remaining)
        Declined == [to |-> "return", part |-> NoPart]
    IN
    IF m = NoMatch THEN Declined
    ELSE IF SlashAlreadyUsed(ps) THEN Declined
    ELSE IF UsedAgent(ps)
         THEN IF SlashNotAfterAgent(ps) THEN Declined
              ELSE IF NotBlank(Slice(fullMessage, PreviousPartEnd(ps), offset)) THEN Declined
              ELSE [to |-> "call",
                    part |-> MatchedPart("AgentSubcommand", offset, line, col, m.full,
                                         m.name, <<>>, NoData)]
         ELSE IF m.name \in getCommands
              THEN [to |-> "return",
                    part |-> MatchedPart("SlashCommand", offset, line, col, m.full,
                                         m.name, <<>>, NoData)]
              ELSE Declined

\* the answer not searched: any command is taken for a sub-command
SubCommandResult_Any(call, subCommands) == call

\* lines 180-184: subCommands.find(c => c.name === command)
SubCommandResult(call, subCommands) ==
    IF call.name \in subCommands THEN call ELSE NoPart

\* -------------------------------------------------------------------------
\* Messages: concatenations of at most n tokens of T
\* -------------------------------------------------------------------------
RECURSIVE Concats(_, _)
Concats(T, n) ==
    IF n = 0 THEN {<<>>}
    ELSE LET shorter == Concats(T, n - 1)
         IN shorter \cup {m \o t : m \in shorter, t \in T}

Tokens ==
    { <<"!", "a">>, <<"/", "c">>, <<"/", "s">>, <<"/">>, <<" ">>,
      <<"#", "v">>, <<"x">>, <<"#", "x", ":", "y">> }

LongTokens ==
    { <<"!", "a">>, <<"/", "c">>, <<"/", "s">>, <<"/">>, <<" ">>, <<"#", "v">> }

Phrases ==
    { <<"!", "a", " ">>, <<"/", "c", " ">>, <<"#", "x", ":", "y">>,
      <<"#", "v", ":", "y">>, <<"#", " ">>, <<"x", " ">> }

LineTokens ==
    { <<"!", "a", " ">>,
      <<"#", " ">>, <<"/", "s", " ">>, <<"/", "x", " ">>, <<"/">>, <<"\n">>,
      <<"#", "x", ":", "y">>, <<"#", "v", ":", "1">>, <<"#", "v", ":", "y">>,
      <<"#", "v">>, <<"#", "x">> }

CallTokens ==
    { <<"!", "a", " ">>, <<"/", "c", " ">>, <<"/", "s", " ">>, <<"#", "x", ":", "y">> }

NoRefs == [p \in RefPositions |-> NoData]
AllRefs == [p \in RefPositions |-> "d1"]

\* variableService.getDynamicReferences(sessionId): the list as it is at the
\* call (section 3: "snapshotted once at the very start of parsing")
getDynamicReferences == sessionRefs

\* -------------------------------------------------------------------------
\* parseChatRequest
\* -------------------------------------------------------------------------
\* the gate of line 46 left out
Gate_Always(msg, offset) == TRUE

\* line 46: previousChar.match(/\s/) || i === 0
Gate(msg, offset) == offset = 0 \/ msg[offset] \in WhitespaceChars

\* new OffsetRange(start, endExclusive) rejects start > endExclusive
InvalidOffsetRange(start, endExclusive) == start > endExclusive

\* lines 59-69 left out: no Text part for the text passed over
PartsWith_NoText(ps, newPart, msg, offset, line, col) ==
    IF newPart = NoPart THEN ps ELSE ps \o <<newPart>>

\* the new part written over the last part of the list instead of pushed
PartsWith_OverLast(ps, newPart, msg, offset, line, col) ==
    IF newPart = NoPart THEN ps
    ELSE IF Len(ps) = 0 THEN <<newPart>>
    ELSE [ps EXCEPT ![Len(ps)] = newPart]

\* lines 58-72: the parts after newPart was decided at offset
PartsWith(ps, newPart, msg, offset, line, col) ==
    IF newPart = NoPart THEN ps
    ELSE IF offset # 0
         THEN ps \o << ChatRequestTextPart(
                          PreviousPartEnd(ps), offset,
                          Range(PreviousPartEndLine(ps), PreviousPartEndCol(ps), line, col),
                          Slice(msg, PreviousPartEnd(ps), offset)),
                       newPart >>
         ELSE ps \o <<newPart>>

\* lines 58-80: the rest of the loop body once newPart is decided
Continue(newPart) ==
    IF newPart # NoPart /\ i # 0 /\ InvalidOffsetRange(PreviousPartEnd(parts), i)
    THEN /\ pc' = "threw"
         /\ UNCHANGED <<parts, i, lineNumber, column>>
    ELSE /\ parts' = PartsWith(parts, newPart, message, i, lineNumber, column)
         /\ i' = i + 1
         /\ IF message[i + 1] = "\n"
            THEN lineNumber' = lineNumber + 1 /\ column' = 1
            ELSE lineNumber' = lineNumber /\ column' = column + 1
         /\ pc' = "scan"

\* the variable matcher's answer passed over: the dynamic-reference matcher
\* is asked at every '#'
VariableMatched_Ignored(v) == FALSE

\* line 48: tryToParseVariable(...) || ... : a part returned by the variable
\* matcher is taken and the dynamic-reference matcher is not called
VariableMatched(v) == v # NoPart

\* lines 36-41: the call; the reference list is read before the loop starts
ParseChatRequest ==
    /\ pc = "idle"
    /\ parts' = <<>>
    /\ references' = getDynamicReferences
    /\ refReads' = refReads + 1
    /\ lineNumber' = 1
    /\ column' = 1
    /\ i' = 0
    /\ pc' = "scan"
    /\ UNCHANGED <<otherVars, message, waiting, sessionRefs, mutations, awaited, subLog>>

\* lines 42-56: one iteration up to its first await, or to its end when
\* nothing is awaited
ScanChar ==
    /\ pc = "scan"
    /\ i < Len(message)
    /\ LET char == message[i + 1]
           remaining == Slice(message, i, Len(message))
       IN IF Gate(message, i) /\ char = chatFileVariableLeader
          THEN LET v == tryToParseVariable(remaining, i, lineNumber, column) IN
               IF VariableMatched(v)
               THEN Continue(v) /\ UNCHANGED awaited
               ELSE /\ awaited' = tryToParseDynamicVariable(remaining, i, lineNumber,
                                                            column, references)
                    /\ pc' = "awaitReturn"
                    /\ UNCHANGED <<parts, i, lineNumber, column>>
          ELSE IF Gate(message, i) /\ char = chatAgentLeader
          THEN /\ Continue(tryToParseAgent(remaining, message, i, lineNumber, column, parts))
               /\ UNCHANGED awaited
          ELSE IF Gate(message, i) /\ char = chatSubcommandLeader
          THEN LET step == SlashCommandStep(remaining, message, i, lineNumber, column, parts) IN
               /\ awaited' = step.part
               /\ pc' = IF step.to = "call" THEN "awaitCall" ELSE "awaitReturn"
               /\ UNCHANGED <<parts, i, lineNumber, column>>
          ELSE Continue(NoPart) /\ UNCHANGED awaited
    /\ UNCHANGED <<otherVars, message, waiting, sessionRefs, mutations, references, refReads, subLog>>

\* line 179: the agent answers provideSlashCommands with a list of sub-commands
SubCommandsProvided ==
    /\ pc = "awaitCall"
    /\ \E subCommands \in SUBSET SubCommandNames :
          /\ awaited' = SubCommandResult(awaited, subCommands)
          /\ subLog' = Append(subLog, [offset |-> i, name |-> awaited.name,
                                       failed |-> FALSE, answer |-> subCommands])
    /\ pc' = "awaitReturn"
    /\ UNCHANGED <<otherVars, message, waiting, sessionRefs, mutations, parts, references, i, lineNumber,
                   column, refReads>>

\* line 179: provideSlashCommands rejects; nothing catches the rejection
SubCommandsFailed ==
    /\ pc = "awaitCall"
    /\ subLog' = Append(subLog, [offset |-> i, name |-> awaited.name,
                                 failed |-> TRUE, answer |-> {}])
    /\ pc' = "rejected"
    /\ UNCHANGED <<otherVars, message, waiting, sessionRefs, mutations, parts, references, i, lineNumber,
                   column, awaited, refReads>>

\* lines 49 and 54: the awaited matcher has returned, the loop body goes on
Resume ==
    /\ pc = "awaitReturn"
    /\ Continue(awaited)
    /\ awaited' = NoPart
    /\ UNCHANGED <<otherVars, message, waiting, sessionRefs, mutations, references, refReads, subLog>>

\* the closing Text part pushed only after an earlier part
PartsAtEnd_OnlyAfterPart(ps, msg, line, col) ==
    IF Len(ps) > 0 /\ PreviousPartEnd(ps) < Len(msg)
    THEN Append(ps, ChatRequestTextPart(
             PreviousPartEnd(ps), Len(msg),
             Range(PreviousPartEndLine(ps), PreviousPartEndCol(ps), line, col),
             Slice(msg, PreviousPartEnd(ps), Len(msg))))
    ELSE ps

\* lines 82-89: the Text part of what follows the last part, if anything
PartsAtEnd(ps, msg, line, col) ==
    IF PreviousPartEnd(ps) < Len(msg)
    THEN Append(ps, ChatRequestTextPart(
             PreviousPartEnd(ps), Len(msg),
             Range(PreviousPartEndLine(ps), PreviousPartEndCol(ps), line, col),
             Slice(msg, PreviousPartEnd(ps), Len(msg))))
    ELSE ps

\* lines 82-94: after the loop
Finish ==
    /\ pc = "scan"
    /\ i = Len(message)
    /\ parts' = PartsAtEnd(parts, message, lineNumber, column)
    /\ pc' = "done"
    /\ UNCHANGED <<otherVars, message, waiting, sessionRefs, mutations, references, i, lineNumber, column,
                   awaited, refReads, subLog>>

\* other activity of the session adds, replaces or removes a dynamic
\* reference while the parse is suspended
ChangeReferences ==
    /\ pc \in {"awaitCall", "awaitReturn"}
    /\ Len(mutations) < MaxMutations
    /\ \E p \in RefPositions, d \in RefData \cup {NoData} :
          /\ sessionRefs[p] # d
          /\ sessionRefs' = [sessionRefs EXCEPT ![p] = d]
          /\ mutations' = Append(mutations, [during |-> pc, position |-> p, data |-> d])
    /\ UNCHANGED <<otherVars, message, waiting, pc, parts, references, i, lineNumber, column, awaited,
                   refReads, subLog>>

\* -------------------------------------------------------------------------
\* CSEventHandler: usage events (csAccount.ts lines 71-187)
\* -------------------------------------------------------------------------
MAX_RETRIES == 5
RETRY_DELAY_MS == 1000

Edits == 1..MaxEdits

\* a chain that has not been started
NoChain ==
    [state |-> "none", retryCount |-> 0, events |-> <<>>, live |-> FALSE,
     body |-> <<>>, attempts |-> 0, last |-> "none", delay |-> 0]

NoReset == [by |-> 0, after |-> "none", removed |-> <<>>, body |-> <<>>]

\* the constructor and the empty global state
UsageConstructed ==
    /\ persisted = <<>>
    /\ chains = [c \in Edits |-> NoChain]
    /\ edits = 0
    /\ accepted = [e \in Edits |-> 0]
    /\ lastReset = NoReset

\* the array named events in chain c: the stored array itself while
\* globalState still holds the very array it was handed
Events(c) == IF chains[c].live THEN persisted ELSE chains[c].events

\* the test of line 139 one too late
RetriesExceeded_OffByOne(retryCount) == retryCount > MAX_RETRIES

\* line 139: retryCount >= MAX_RETRIES
RetriesExceeded(retryCount) == retryCount >= MAX_RETRIES

\* lines 138-144: sendUsageEventsWithRetry(events, retryCount) up to its
\* first await
sendUsageEventsWithRetry(ch, retryCount) ==
    IF RetriesExceeded(retryCount)
    THEN [ch EXCEPT !.state = "ended", !.retryCount = retryCount, !.last = "exhausted"]
    ELSE [ch EXCEPT !.state = "session", !.retryCount = retryCount]

\* lines 174-186: the value sendUsageEvent returns for the answer of fetch
sendUsageEvent(answer) ==
    CASE answer = "ok" -> TRUE
      [] answer = "unauthorized" -> FALSE
      [] answer = "other" -> TRUE
      [] answer = "error" -> TRUE

\* line 154: RETRY_DELAY_MS * Math.pow(2, retryCount)
RetryDelay(retryCount) == RETRY_DELAY_MS * (2 ^ retryCount)

\* line 152: globalState.update(USAGE_EVENTS_KEY, []) at the end of chain c;
\* the chains that shared the stored array keep the array as it was
ChainsAfterReset(c, outcome) ==
    [d \in Edits |->
        LET kept == IF chains[d].live
                    THEN [chains[d] EXCEPT !.events = persisted, !.live = FALSE]
                    ELSE chains[d]
        IN IF d = c THEN [kept EXCEPT !.state = "ended", !.last = outcome] ELSE kept]

ResetBy(c, outcome) ==
    /\ persisted' = <<>>
    /\ chains' = ChainsAfterReset(c, outcome)
    /\ lastReset' = [by |-> c, after |-> outcome, removed |-> persisted,
                     body |-> chains[c].body]

\* lines 116-132: handleAgentCodeEdit, to the first await of the send
HandleAgentCodeEdit ==
    /\ edits < MaxEdits
    /\ edits' = edits + 1
    /\ \E eventAccepted \in BOOLEAN :
          IF ~eventAccepted
          THEN UNCHANGED <<persisted, chains>>
          ELSE /\ persisted' = Append(persisted, edits + 1)
               /\ chains' = [chains EXCEPT ![edits + 1] =
                                sendUsageEventsWithRetry(
                                    [NoChain EXCEPT !.events = Append(persisted, edits + 1),
                                                    !.live = byReference],
                                    0)]
    /\ UNCHANGED <<aroundUsage, byReference, accepted, lastReset>>

\* lines 144-150: getSession settles; with a session fetch is called with
\* the events serialised then
GetSessionSettles ==
    \E c \in Edits, outcome \in {"session", "none", "rejects"} :
        /\ chains[c].state = "session"
        /\ chains' = [chains EXCEPT ![c] =
              CASE outcome = "session" ->
                       [@ EXCEPT !.state = "fetch", !.body = Events(c),
                                 !.attempts = @ + 1]
                [] outcome = "none" -> [@ EXCEPT !.state = "ended", !.last = "noSession"]
                [] outcome = "rejects" -> [@ EXCEPT !.state = "ended", !.last = "sessionError"]]
        /\ UNCHANGED <<aroundUsage, persisted, byReference, edits, accepted, lastReset>>

\* lines 162-186 and 150-152: fetch settles
FetchSettles ==
    \E c \in Edits, answer \in {"ok", "unauthorized", "other", "error"} :
        /\ chains[c].state = "fetch"
        /\ accepted' = IF answer = "ok"
                       THEN [e \in Edits |->
                                IF \E k \in 1..Len(chains[c].body) : chains[c].body[k] = e
                                THEN accepted[e] + 1 ELSE accepted[e]]
                       ELSE accepted
        /\ IF answer = "unauthorized"
           THEN /\ chains' = [chains EXCEPT ![c].state = "refresh", ![c].last = answer]
                /\ UNCHANGED <<persisted, lastReset>>
           ELSE IF sendUsageEvent(answer)
           THEN ResetBy(c, answer)
           ELSE /\ chains' = [chains EXCEPT ![c].state = "timer", ![c].last = answer,
                                            ![c].delay = RetryDelay(chains[c].retryCount)]
                /\ UNCHANGED <<persisted, lastReset>>
        /\ UNCHANGED <<aroundUsage, byReference, edits>>

\* lines 177-178 and 153-156: the command codestory.refreshTokens settles
RefreshTokensSettles ==
    \E c \in Edits, outcome \in {"done", "rejects"} :
        /\ chains[c].state = "refresh"
        /\ IF outcome = "rejects"
           THEN ResetBy(c, "refreshError")
           ELSE IF sendUsageEvent("unauthorized")
           THEN ResetBy(c, "unauthorized")
           ELSE /\ chains' = [chains EXCEPT ![c].state = "timer",
                                            ![c].delay = RetryDelay(chains[c].retryCount)]
                /\ UNCHANGED <<persisted, lastReset>>
        /\ UNCHANGED <<aroundUsage, byReference, edits, accepted>>

\* line 156: the timer fires and calls sendUsageEventsWithRetry(events,
\* retryCount + 1)
RetryTimerFires ==
    \E c \in Edits :
        /\ chains[c].state = "timer"
        /\ chains' = [chains EXCEPT ![c] =
                         sendUsageEventsWithRetry(chains[c], chains[c].retryCount + 1)]
        /\ UNCHANGED <<aroundUsage, persisted, byReference, edits, accepted, lastReset>>

\* every component outside the parser as its constructor leaves it
\* -------------------------------------------------------------------------
\* CSEventHandler: recording of context events (csAccount.ts lines 92-287)
\* -------------------------------------------------------------------------
Files == {"a.ts", "b.ts"}
Lines == 0..MaxLine

Position(line) == [line |-> line, character |-> 0, byteOffset |-> 0]

\* a vscode.Selection: isReversed when the anchor is after the active end;
\* on one line the characters decide, which the model leaves open
Selections ==
    {sel \in [anchor : Lines, active : Lines, isReversed : BOOLEAN] :
        /\ sel.anchor > sel.active => sel.isReversed
        /\ sel.anchor < sel.active => ~sel.isReversed}

NoRange == [startPosition |-> Position(0), endPosition |-> Position(0)]

\* lines 259-287
selectionToSidecarRange(selection) ==
    IF selection.isReversed
    THEN [startPosition |-> Position(selection.active),
          endPosition |-> Position(selection.anchor)]
    ELSE [startPosition |-> Position(selection.anchor),
          endPosition |-> Position(selection.active)]

\* the SidecarContextEvent variants
OpenFileEvent(filePath) == [kind |-> "OpenFile", fs_file_path |-> filePath, range |-> NoRange]

LSPContextEvent(filePath) ==
    [kind |-> "LSPContextEvent", fs_file_path |-> filePath, range |-> NoRange]

SelectionEvent(filePath, range) ==
    [kind |-> "Selection", fs_file_path |-> filePath, range |-> range]

\* lines 236 and 240: the last event is a Selection with the same start line
\* or the same end line
ReplacesLast(lastEvent, filePath, range) ==
    /\ lastEvent.kind = "Selection"
    /\ \/ lastEvent.range.startPosition.line = range.startPosition.line
       \/ lastEvent.range.endPosition.line = range.endPosition.line

\* lines 222-257, as a function of the session
onDidChangeTextDocumentSelection(session, filePath, selection) ==
    LET currentSelectionRange == selectionToSidecarRange(selection)
        event == SelectionEvent(filePath, currentSelectionRange)
    IN  IF Len(session) = 0
        THEN <<event>>
        ELSE IF ReplacesLast(session[Len(session)], filePath, currentSelectionRange)
             THEN [session EXCEPT ![Len(session)] = event]
             ELSE Append(session, event)

NoOp == [kind |-> "none", event |-> OpenFileEvent("a.ts"), before |-> <<>>, since |-> <<>>]

RecordConstructed ==
    /\ currentSession = <<>>
    /\ sinceReset = <<>>
    /\ returned = <<>>
    /\ lastOp = NoOp
    /\ ops = 0

\* one recording call: the session it leaves and the ghosts
Recorded(kind, event, session) ==
    /\ ops < MaxOps
    /\ ops' = ops + 1
    /\ currentSession' = session
    /\ sinceReset' = Append(sinceReset, [kind |-> kind, event |-> event])
    /\ lastOp' = [kind |-> kind, event |-> event, before |-> currentSession,
                  since |-> sinceReset]
    /\ UNCHANGED <<aroundRecord, returned>>

\* lines 92-103
HandleSymbolNavigation ==
    \E filePath \in Files :
        Recorded("navigation", LSPContextEvent(filePath),
                 Append(currentSession, LSPContextEvent(filePath)))

\* lines 209-215
OnDidChangeTextDocument ==
    \E filePath \in Files :
        Recorded("open", OpenFileEvent(filePath),
                 Append(currentSession, OpenFileEvent(filePath)))

\* lines 222-257
OnDidChangeTextDocumentSelection ==
    \E filePath \in Files, selection \in Selections :
        Recorded("selection",
                 SelectionEvent(filePath, selectionToSidecarRange(selection)),
                 onDidChangeTextDocumentSelection(currentSession, filePath, selection))

\* the session startRecording leaves, were it to keep the events
SessionAfterStart_Kept(session) == session

\* line 193
SessionAfterStart(session) == <<>>

\* lines 192-194
StartRecording ==
    /\ ops < MaxOps
    /\ ops' = ops + 1
    /\ currentSession' = SessionAfterStart(currentSession)
    /\ sinceReset' = <<>>
    /\ lastOp' = [NoOp EXCEPT !.kind = "start", !.before = currentSession,
                                !.since = sinceReset]
    /\ UNCHANGED <<aroundRecord, returned>>

\* lines 199-203
StopRecording ==
    /\ ops < MaxOps
    /\ ops' = ops + 1
    /\ returned' = currentSession
    /\ currentSession' = <<>>
    /\ sinceReset' = <<>>
    /\ lastOp' = [NoOp EXCEPT !.kind = "stop", !.before = currentSession,
                               !.since = sinceReset]
    /\ UNCHANGED aroundRecord

\* -------------------------------------------------------------------------
\* SidecarCompletionProvider.checkRequestPossible (csAccount.ts lines 397-458)
\* -------------------------------------------------------------------------
DEBOUNCE_DELAY == 350

Calls == 1..MaxCalls

\* the lengths of time that pass between two steps
TimeSteps == {100, 250}

NotMade == [made |-> FALSE, at |-> 0, debounced |-> FALSE, window |-> 0, until |-> 0,
            settled |-> FALSE, settledAt |-> 0, result |-> 0]

DebounceConstructed ==
    /\ now = 0
    /\ debouncing = FALSE
    /\ lastRequestId = 0
    /\ timers = <<>>
    /\ calls = [c \in Calls |-> NotMade]
    /\ made = 0
    /\ windows = 0

\* the timers without the debounce timer
WithoutDebounceTimeout(queue) ==
    SelectSeq(queue, LAMBDA t : t.who # 0)

\* Timeout.refresh() left out: the debounce timer keeps its deadline
Refreshed_Not(queue) == queue

\* line 440: debounceTimeout.refresh() restarts the timer, which moves it
\* behind the timers started before
Refreshed(queue) ==
    Append(WithoutDebounceTimeout(queue), [who |-> 0, deadline |-> now + DEBOUNCE_DELAY])

\* the deadline of the pending debounce timer
WindowEnd(queue) ==
    LET scheduled == SelectSeq(queue, LAMBDA t : t.who = 0)
    IN  IF scheduled = <<>> THEN 0 ELSE scheduled[1].deadline

\* lines 446-448 and 457: null (0) unless the call is still the latest
AfterWait(uuid, lastUUID) == IF uuid # lastUUID THEN 0 ELSE uuid

\* lines 432-452, up to the await of line 441 or the return of line 454
CheckRequestPossible ==
    /\ made < MaxCalls
    /\ LET uuid == made + 1
       IN  /\ made' = uuid
           /\ lastRequestId' = uuid
           /\ IF debouncing
              THEN /\ timers' = Append(Refreshed(timers),
                                       [who |-> uuid, deadline |-> now + DEBOUNCE_DELAY])
                   /\ calls' = [calls EXCEPT ![uuid] =
                         [NotMade EXCEPT !.made = TRUE, !.at = now, !.debounced = TRUE,
                                         !.window = windows,
                                         !.until = WindowEnd(Refreshed(timers))]]
                   /\ UNCHANGED <<debouncing, windows>>
              ELSE /\ debouncing' = TRUE
                   /\ timers' = Append(timers, [who |-> 0, deadline |-> now + DEBOUNCE_DELAY])
                   /\ windows' = windows + 1
                   /\ calls' = [calls EXCEPT ![uuid] =
                         [NotMade EXCEPT !.made = TRUE, !.at = now, !.window = windows + 1,
                                         !.until = now + DEBOUNCE_DELAY,
                                         !.settled = TRUE, !.settledAt = now,
                                         !.result = uuid]]
    /\ UNCHANGED <<aroundDebounce, now>>

\* lines 451-453: the callback of debounceTimeout
DebounceTimeoutFires ==
    /\ timers # <<>>
    /\ timers[1].who = 0
    /\ now >= timers[1].deadline
    /\ debouncing' = FALSE
    /\ timers' = Tail(timers)
    /\ UNCHANGED <<aroundDebounce, now, lastRequestId, calls, made, windows>>

\* lines 441-448 and 457: the timer of a waiting call fires and the call
\* goes on after its await
WaitElapsed ==
    /\ timers # <<>>
    /\ timers[1].who # 0
    /\ now >= timers[1].deadline
    /\ LET uuid == timers[1].who
           lastUUID == lastRequestId
       IN  calls' = [calls EXCEPT ![uuid].settled = TRUE, ![uuid].settledAt = now,
                                  ![uuid].result = AfterWait(uuid, lastUUID)]
    /\ timers' = Tail(timers)
    /\ UNCHANGED <<aroundDebounce, now, debouncing, lastRequestId, made, windows>>

\* time passes; a timer fires at its deadline or later
TimePasses ==
    /\ \E d \in TimeSteps :
          /\ now + d <= MaxTime
          /\ now' = now + d
    /\ UNCHANGED <<aroundDebounce, debouncing, lastRequestId, timers, calls, made, windows>>

\* -------------------------------------------------------------------------
\* SidecarCompletionProvider.provideInlineCompletionItems (lines 460-560)
\* -------------------------------------------------------------------------
Invocations == 1..MaxInvocations

NotInvoked == [pc |-> "idle", cancelled |-> FALSE, setCalled |-> FALSE,
               disableCalled |-> FALSE, chunks |-> 0, result |-> "none", path |-> "none"]

CompletionConstructed ==
    /\ invocations = [p \in Invocations |-> NotInvoked]
    /\ loading = FALSE
    /\ statusLoading = FALSE
    /\ flyingRequestController = 0

\* the insertText values a streamed completion carries
InsertTexts == {<<>>, <<"\n">>, <<"a">>, <<"a", "\n">>}

\* line 525: insertText.endsWith('\n') && insertText.length > 1
EndsLine(insertText) ==
    /\ Len(insertText) >= 1
    /\ insertText[Len(insertText)] = "\n"
    /\ Len(insertText) > 1

\* a return of the invocation
Returned(inv, result, path) ==
    [inv EXCEPT !.pc = "returned", !.result = result, !.path = path]

\* line 467: the call, up to the await of checkRequestPossible
ProvideInlineCompletionItems ==
    /\ \E p \in Invocations :
          /\ invocations[p].pc = "idle"
          /\ invocations' = [invocations EXCEPT ![p].pc = "checking"]
    /\ UNCHANGED <<aroundCompletion, loading, statusLoading, flyingRequestController>>

\* the editor cancels the token of a running invocation
CancellationRequested ==
    /\ \E p \in Invocations :
          /\ invocations[p].pc \in {"checking", "requesting", "streaming"}
          /\ ~invocations[p].cancelled
          /\ invocations' = [invocations EXCEPT ![p].cancelled = TRUE]
    /\ UNCHANGED <<aroundCompletion, loading, statusLoading, flyingRequestController>>

\* lines 467-500: checkRequestPossible settles; the invocation returns null
\* or goes on to the await of inlineCompletion
RequestChecked ==
    \E p \in Invocations, possible \in BOOLEAN :
        /\ invocations[p].pc = "checking"
        /\ IF ~possible
           THEN /\ invocations' = [invocations EXCEPT ![p] = Returned(@, "null", "rejected")]
                /\ UNCHANGED <<loading, statusLoading, flyingRequestController>>
           ELSE IF invocations[p].cancelled
           THEN /\ invocations' = [invocations EXCEPT ![p] =
                                      Returned(@, "null", "cancelledBeforeRequest")]
                /\ UNCHANGED <<loading, statusLoading, flyingRequestController>>
           ELSE /\ flyingRequestController' = p
                /\ loading' = TRUE
                /\ statusLoading' = TRUE
                /\ invocations' = [invocations EXCEPT ![p].pc = "requesting",
                                                      ![p].setCalled = TRUE]
        /\ UNCHANGED aroundCompletion

\* lines 546-559: the catch block
Caught(p, path) ==
    /\ statusLoading' = FALSE
    /\ loading' = IF flyingRequestController = p THEN FALSE ELSE loading
    /\ invocations' = [invocations EXCEPT ![p] =
                          [Returned(@, "null", path) EXCEPT !.disableCalled = TRUE]]
    /\ UNCHANGED flyingRequestController

\* lines 500-505: inlineCompletion settles
ResponseSettles ==
    \E p \in Invocations, fulfilled \in BOOLEAN :
        /\ invocations[p].pc = "requesting"
        /\ IF ~fulfilled
           THEN Caught(p, "requestThrew")
           ELSE /\ loading' = FALSE
                /\ invocations' = [invocations EXCEPT ![p] =
                      IF @.cancelled
                      THEN Returned(@, "null", "cancelledBeforeStream")
                      ELSE [@ EXCEPT !.pc = "streaming"]]
                /\ UNCHANGED <<statusLoading, flyingRequestController>>
        /\ UNCHANGED aroundCompletion

\* lines 509-545: the stream yields a completion
StreamYields ==
    \E p \in Invocations, completions \in {<<>>} \cup {<<t>> : t \in InsertTexts} :
        /\ invocations[p].pc = "streaming"
        /\ invocations[p].chunks < MaxChunks
        /\ IF invocations[p].cancelled
           THEN /\ invocations' = [invocations EXCEPT ![p] =
                                      Returned(@, "null", "cancelledInStream")]
                /\ UNCHANGED statusLoading
           ELSE IF Len(completions) = 0
           THEN /\ invocations' = [invocations EXCEPT ![p] =
                                      Returned(@, "null", "emptyCompletions")]
                /\ UNCHANGED statusLoading
           ELSE IF completions[1] # <<>> /\ EndsLine(completions[1])
           THEN /\ statusLoading' = FALSE
                /\ invocations' = [invocations EXCEPT ![p] =
                      [Returned(@, "completion", "line") EXCEPT !.disableCalled = TRUE]]
           ELSE /\ invocations' = [invocations EXCEPT ![p].chunks = @ + 1]
                /\ UNCHANGED statusLoading
        /\ UNCHANGED <<aroundCompletion, loading, flyingRequestController>>

\* lines 509, 545 and 559: the stream ends
StreamEnds ==
    /\ \E p \in Invocations :
          /\ invocations[p].pc = "streaming"
          /\ invocations' = [invocations EXCEPT ![p] = Returned(@, "null", "streamEnded")]
    /\ UNCHANGED <<aroundCompletion, loading, statusLoading, flyingRequestController>>

\* lines 509 and 546-559: reading the stream throws
StreamThrows ==
    /\ \E p \in Invocations :
          /\ invocations[p].pc = "streaming"
          /\ Caught(p, "streamThrew")
    /\ UNCHANGED aroundCompletion

\* -------------------------------------------------------------------------
\* AideProbeSymbolInfo (aideProbeSymbolInfo.ts lines 25-185)
\* -------------------------------------------------------------------------
\* IAideProbeBreakdownViewModel objects: uri.fsPath and name make the key,
\* object tells apart two objects with one key
Elements == [fsPath : {"a.ts", "b.ts"}, name : {"f"}, object : {1, 2}]

NoElement == [fsPath |-> "", name |-> "", object |-> 0]

SameKey(item, element) == item.fsPath = element.fsPath /\ item.name = element.name

\* the arrays handed to updateSymbolInfo: one entry per key
SymbolInfos ==
    {<<e>> : e \in Elements} \cup
    {pair \in Elements \X Elements : ~SameKey(pair[1], pair[2])}

\* this.list before createSymbolInfosList
Undefined == [defined |-> FALSE, elements |-> <<>>]

\* a list widget holding the elements
Widget(elements) == [defined |-> TRUE, elements |-> elements]

NoWidgetOp == [kind |-> "none", visible |-> "undefined", before |-> <<>>, symbolInfo |-> <<>>]

SymbolInfoConstructed ==
    /\ isVisible = "undefined"
    /\ list = Undefined
    /\ viewModel = <<>>
    /\ activeSymbolInfo = NoElement
    /\ resolved = {}
    /\ pending = <<>>
    /\ lastChanged = NoElement
    /\ lastWidgetOp = NoWidgetOp
    /\ widgetOps = 0

\* the list widget's splice(start, deleteCount, elements), start counted from 0
splice(elements, start, deleteCount, inserted) ==
    LET from == IF start > Len(elements) THEN Len(elements) ELSE start
        upto == IF from + deleteCount > Len(elements) THEN Len(elements) ELSE from + deleteCount
    IN  SubSeq(elements, 1, from) \o inserted \o SubSeq(elements, upto + 1, Len(elements))

\* lines 105-113: the index, counted from 0, of the last item with the key
\* of element, -1 when there is none
getSymbolInfoListIndex(model, element) ==
    LET matches == {k \in 1..Len(model) : SameKey(model[k], element)}
    IN  IF matches = {} THEN -1 ELSE (CHOOSE k \in matches : \A j \in matches : j <= k) - 1

\* a new entry put at the head of the list widget
PushIndex_Head(model) == 0

\* line 145: this.viewModel.length - 1, after the push
PushIndex(model) == Len(model) - 1

\* lines 141-151, for the entries from index k on: the view model, the list
\* and matchingIndex
RECURSIVE ForEachSymbol(_, _, _, _, _)
ForEachSymbol(symbolInfo, k, model, elements, matchingIndex) ==
    IF k > Len(symbolInfo)
    THEN [viewModel |-> model, list |-> elements, matchingIndex |-> matchingIndex]
    ELSE LET symbol == symbolInfo[k]
             matchIndex == getSymbolInfoListIndex(model, symbol)
         IN  IF matchIndex = -1
             THEN LET pushed == Append(model, symbol)
                  IN  ForEachSymbol(symbolInfo, k + 1, pushed,
                                    splice(elements, PushIndex(pushed), 0, <<symbol>>),
                                    matchIndex)
             ELSE ForEachSymbol(symbolInfo, k + 1,
                                [model EXCEPT ![matchIndex + 1] = symbol],
                                splice(elements, matchIndex, 1, <<symbol>>),
                                matchIndex)

\* lines 136-152
UpdatedSymbolInfo(symbolInfo) ==
    IF Len(viewModel) = 0
    THEN [viewModel |-> symbolInfo, list |-> splice(list.elements, 0, 0, symbolInfo),
          matchingIndex |-> -1]
    ELSE ForEachSymbol(symbolInfo, 1, viewModel, list.elements, -1)

\* one call on the widget
WidgetOp(kind, symbolInfo) ==
    /\ widgetOps < MaxWidgetOps
    /\ widgetOps' = widgetOps + 1
    /\ lastWidgetOp' = [kind |-> kind, visible |-> isVisible, before |-> viewModel,
                        symbolInfo |-> symbolInfo]

\* lines 48-60 and 62-103
Show ==
    /\ WidgetOp("show", <<>>)
    /\ IF isVisible = "true"
       THEN UNCHANGED <<isVisible, list>>
       ELSE /\ list' = IF ~list.defined THEN Widget(<<>>) ELSE list
            /\ isVisible' = "true"
    /\ UNCHANGED <<aroundSymbolInfo, viewModel, activeSymbolInfo, resolved, pending, lastChanged>>

\* lines 162-178
Hide ==
    /\ WidgetOp("hide", <<>>)
    /\ IF isVisible # "true" \/ ~list.defined
       THEN UNCHANGED <<isVisible, list, viewModel>>
       ELSE /\ isVisible' = "false"
            /\ list' = Widget(splice(list.elements, 0, Len(viewModel), <<>>))
            /\ viewModel' = <<>>
    /\ UNCHANGED <<aroundSymbolInfo, activeSymbolInfo, resolved, pending, lastChanged>>

\* lines 115-131 up to the await of line 129, and beyond it when the symbol
\* promise of the element has resolved: the new activeSymbolInfo, pending
\* calls and latest changeActiveBreakdown
Opened(element) ==
    IF activeSymbolInfo = element
    THEN [activeSymbolInfo |-> activeSymbolInfo, pending |-> pending,
          lastChanged |-> lastChanged]
    ELSE IF element \in resolved
    THEN [activeSymbolInfo |-> element, pending |-> pending, lastChanged |-> element]
    ELSE [activeSymbolInfo |-> element, pending |-> Append(pending, element),
          lastChanged |-> lastChanged]

\* lines 133-160; when the setFocus of line 156 makes the list widget fire
\* onDidChangeFocus, the handler of lines 86-96 opens the element
UpdateSymbolInfo ==
    \E symbolInfo \in SymbolInfos, fires \in BOOLEAN :
        /\ list.defined
        /\ WidgetOp("update", symbolInfo)
        /\ LET updated == UpdatedSymbolInfo(symbolInfo)
               opened == IF updated.matchingIndex # -1 /\ fires
                         THEN Opened(updated.list[updated.matchingIndex + 1])
                         ELSE Opened(activeSymbolInfo)
           IN  /\ viewModel' = updated.viewModel
               /\ list' = Widget(updated.list)
               /\ activeSymbolInfo' = opened.activeSymbolInfo
               /\ pending' = opened.pending
               /\ lastChanged' = opened.lastChanged
        /\ UNCHANGED <<aroundSymbolInfo, isVisible, resolved>>

\* lines 86-102 and 115-129: the user focuses or opens a list element
OpenSymbolInfoReference ==
    /\ list.defined
    /\ widgetOps < MaxWidgetOps
    /\ widgetOps' = widgetOps + 1
    /\ \E index \in 1..Len(list.elements) :
          LET opened == Opened(list.elements[index])
          IN  /\ activeSymbolInfo' = opened.activeSymbolInfo
              /\ pending' = opened.pending
              /\ lastChanged' = opened.lastChanged
    /\ UNCHANGED <<aroundSymbolInfo, isVisible, list, viewModel, resolved, lastWidgetOp>>

\* lines 129-130: the symbol promise of an element resolves and the calls
\* waiting for it go on, in the order they were made
SymbolResolves ==
    /\ \E element \in Elements \ resolved :
          /\ resolved' = resolved \cup {element}
          /\ pending' = SelectSeq(pending, LAMBDA e : e # element)
          /\ lastChanged' = IF \E k \in 1..Len(pending) : pending[k] = element
                            THEN element
                            ELSE lastChanged
    /\ UNCHANGED <<aroundSymbolInfo, isVisible, list, viewModel, activeSymbolInfo,
                   lastWidgetOp, widgetOps>>

OthersConstructed ==
    /\ UsageConstructed
    /\ byReference = FALSE
    /\ RecordConstructed
    /\ DebounceConstructed
    /\ CompletionConstructed
    /\ SymbolInfoConstructed

InitLocals ==
    /\ mutations = <<>>
    /\ pc = "idle"
    /\ parts = <<>>
    /\ references = NoRefs
    /\ i = 0
    /\ lineNumber = 1
    /\ column = 1
    /\ awaited = NoPart
    /\ refReads = 0
    /\ subLog = <<>>

\* the locals of the invocation that is running
Locals ==
    [message |-> message, pc |-> pc, parts |-> parts, references |-> references,
     i |-> i, lineNumber |-> lineNumber, column |-> column, awaited |-> awaited,
     refReads |-> refReads, subLog |-> subLog]

\* an invocation for msg that has not been called yet
NotCalled(msg) ==
    [message |-> msg, pc |-> "idle", parts |-> <<>>, references |-> NoRefs,
     i |-> 0, lineNumber |-> 1, column |-> 1, awaited |-> NoPart,
     refReads |-> 0, subLog |-> <<>>]

\* there is no second invocation
NoInvocation == [NotCalled(<<>>) EXCEPT !.pc = "absent"]

\* parts kept in a field of the parser: the invocation that goes on finds
\* the list the other invocation left there
ResumedParts_Field(own, left) == left

\* line 37: parts is a local of the invocation, an invocation that goes on
\* finds its own list
ResumedParts(own, left) == own

\* lines 49, 54, 179: while the running invocation is suspended at an await
\* (or is over, or has not been called) the event loop runs the other one
Switch ==
    /\ pc # "scan"
    /\ waiting.pc \notin {"absent", "done", "rejected", "threw"}
    /\ waiting' = Locals
    /\ message' = waiting.message
    /\ pc' = waiting.pc
    /\ parts' = ResumedParts(waiting.parts, parts)
    /\ references' = waiting.references
    /\ i' = waiting.i
    /\ lineNumber' = waiting.lineNumber
    /\ column' = waiting.column
    /\ awaited' = waiting.awaited
    /\ refReads' = waiting.refReads
    /\ subLog' = waiting.subLog
    /\ UNCHANGED <<otherVars, sessionRefs, mutations>>

Init ==
    /\ message \in Concats(Tokens, MaxTokens)
    /\ sessionRefs \in {NoRefs, AllRefs}
    /\ InitLocals
    /\ waiting = NoInvocation
    /\ OthersConstructed

InitLong ==
    /\ message \in Concats(LongTokens, MaxLongTokens)
    /\ sessionRefs = NoRefs
    /\ InitLocals
    /\ waiting = NoInvocation
    /\ OthersConstructed

InitRefs ==
    /\ message \in Concats(Phrases, MaxPhrases)
    /\ sessionRefs \in [RefPositions -> {NoData, "d1"}]
    /\ InitLocals
    /\ waiting = NoInvocation
    /\ OthersConstructed

InitLines ==
    /\ message \in Concats(LineTokens, MaxLineTokens)
    /\ sessionRefs \in [RefPositions -> {NoData, "d1"}]
    /\ InitLocals
    /\ waiting = NoInvocation
    /\ OthersConstructed

\* two invocations on the same parser, each with its own message
InitTwo ==
    /\ message \in Concats(CallTokens, MaxCallTokens)
    /\ sessionRefs \in {NoRefs, AllRefs}
    /\ InitLocals
    /\ waiting \in {NotCalled(m) : m \in Concats(CallTokens, MaxCallTokens)}
    /\ OthersConstructed

\* the parser as it is before any call, with no message
ParserUnused ==
    /\ message = <<>>
    /\ sessionRefs = NoRefs
    /\ InitLocals
    /\ waiting = NoInvocation

InitUsage ==
    /\ ParserUnused
    /\ UsageConstructed
    /\ byReference \in BOOLEAN
    /\ RecordConstructed
    /\ DebounceConstructed
    /\ CompletionConstructed
    /\ SymbolInfoConstructed

InitRecord ==
    /\ ParserUnused
    /\ OthersConstructed

InitSymbolInfo ==
    /\ ParserUnused
    /\ OthersConstructed

NextSymbolInfo ==
    \/ Show
    \/ Hide
    \/ UpdateSymbolInfo
    \/ OpenSymbolInfoReference
    \/ SymbolResolves

InitCompletion ==
    /\ ParserUnused
    /\ OthersConstructed

NextCompletion ==
    \/ ProvideInlineCompletionItems
    \/ CancellationRequested
    \/ RequestChecked
    \/ ResponseSettles
    \/ StreamYields
    \/ StreamEnds
    \/ StreamThrows

InitDebounce ==
    /\ ParserUnused
    /\ OthersConstructed

NextDebounce ==
    \/ CheckRequestPossible
    \/ DebounceTimeoutFires
    \/ WaitElapsed
    \/ TimePasses

NextRecord ==
    \/ HandleSymbolNavigation
    \/ OnDidChangeTextDocument
    \/ OnDidChangeTextDocumentSelection
    \/ StartRecording
    \/ StopRecording

NextUsage ==
    \/ HandleAgentCodeEdit
    \/ GetSessionSettles
    \/ FetchSettles
    \/ RefreshTokensSettles
    \/ RetryTimerFires

Next ==
    \/ ParseChatRequest
    \/ ScanChar
    \/ SubCommandsProvided
    \/ SubCommandsFailed
    \/ Resume
    \/ Finish

NextRefs ==
    \/ Next
    \/ ChangeReferences

NextTwo ==
    \/ Next
    \/ Switch

Spec == Init /\ [][Next]_vars

\* the same parser on longer messages
SpecLong == InitLong /\ [][Next]_vars

\* the same parser on messages of several lines with variables, arguments
\* and anchored references
SpecLines == InitLines /\ [][Next]_vars

\* two invocations of parseChatRequest interleaved at their awaits
SpecTwo == InitTwo /\ [][NextTwo]_vars

\* CSEventHandler: accepted edits, their sends and their retries
SpecUsage == InitUsage /\ [][NextUsage]_vars

\* the symbol list of the probe view alone
SpecSymbolInfo == InitSymbolInfo /\ [][NextSymbolInfo]_vars

\* the providing of inline completions alone
SpecCompletion == InitCompletion /\ [][NextCompletion]_vars

\* the debouncing of completion requests alone
SpecDebounce == InitDebounce /\ [][NextDebounce]_vars

\* the recording of context events alone
SpecRecord == InitRecord /\ [][NextRecord]_vars

\* the parser while the session's reference list changes under it
SpecRefs == InitRefs /\ [][NextRefs]_vars

\* -------------------------------------------------------------------------
\* Properties of parseChatRequest
\* -------------------------------------------------------------------------
PartIndexes == 1..Len(parts)

\* offset o is 0 or the character before it is whitespace
AtWordStart(msg, o) == o = 0 \/ msg[o] \in WhitespaceChars

\* message.slice(start, endExclusive) of each part, concatenated in order
RECURSIVE ConcatSlices(_, _)
ConcatSlices(msg, ps) ==
    IF ps = <<>> THEN <<>>
    ELSE Slice(msg, Head(ps).start, Head(ps).endExclusive) \o ConcatSlices(msg, Tail(ps))

KindCount(ps, kinds) == Cardinality({k \in 1..Len(ps) : ps[k].kind \in kinds})

\* the pattern '/name' matched at offset o itself
SlashTokenAt(msg, o) == MatchNameAt(msg, o + 1, "/", 1)

\* 1-based line and column of offset o of msg
LineAt(msg, o) == 1 + Cardinality({k \in 1..o : msg[k] = "\n"})
ColumnAt(msg, o) ==
    LET newlines == {k \in 1..o : msg[k] = "\n"}
    IN IF newlines = {} THEN o + 1 ELSE o + 1 - Max(newlines)

\* C1: the parts of a result are contiguous and cover [0, message.length)
\* exactly: the first starts at 0, each starts where the previous one ends,
\* the last ends at message.length, and the slices of the parts concatenated
\* in order give the message.
C1_PartsCoverMessage ==
    pc = "done" =>
        /\ \A k \in PartIndexes :
              /\ 0 <= parts[k].start
              /\ parts[k].start <= parts[k].endExclusive
              /\ parts[k].endExclusive <= Len(message)
        /\ Len(message) > 0 =>
              /\ Len(parts) > 0
              /\ parts[1].start = 0
              /\ parts[Len(parts)].endExclusive = Len(message)
        /\ \A k \in 1..(Len(parts) - 1) : parts[k + 1].start = parts[k].endExclusive
        /\ ConcatSlices(message, parts) = message

\* a result of several parts, one of them a part whose range the slash
\* matcher took from a match further along the remainder
C1_Witness ==
    /\ pc = "done"
    /\ Len(parts) >= 3
    /\ \E k \in PartIndexes :
          /\ parts[k].kind = "SlashCommand"
          /\ SlashTokenAt(message, parts[k].start) = NoMatch

\* C2: the offset ranges of the parts of a result are pairwise
\* non-overlapping and their start offsets strictly increase in list order.
C2_StartsStrictlyIncrease ==
    pc = "done" =>
        \A k, l \in PartIndexes :
            k < l => /\ parts[k].start < parts[l].start
                     /\ parts[k].endExclusive <= parts[l].start

\* C3: there is at most one Agent part and at most one part that is a
\* SlashCommand or an AgentSubcommand.
C3_AtMostOneAgentAndCommand ==
    /\ KindCount(parts, {"Agent"}) <= 1
    /\ KindCount(parts, {"SlashCommand", "AgentSubcommand"}) <= 1

\* a result with an Agent and an AgentSubcommand part for a message that
\* holds, at a word start after them, a second '/name' the agent answered
C3_Witness ==
    /\ pc = "done"
    /\ KindCount(parts, {"Agent"}) = 1
    /\ \E k \in PartIndexes :
          /\ parts[k].kind = "AgentSubcommand"
          /\ \E o \in parts[k].endExclusive..(Len(message) - 1) :
                /\ AtWordStart(message, o)
                /\ SlashTokenAt(message, o) # NoMatch
                /\ SlashTokenAt(message, o).name \in subLog[1].answer

\* C4: every part other than Text starts at offset 0 or after a whitespace
\* character, and a non-empty message without a leader at offset 0 or after
\* whitespace gives a single Text part.
C4_PartsStartAtWordStart ==
    /\ \A k \in PartIndexes :
          parts[k].kind # "Text" =>
              parts[k].start = 0 \/ message[parts[k].start] \in WhitespaceChars
    /\ ( /\ pc = "done"
         /\ Len(message) > 0
         /\ \A o \in 0..(Len(message) - 1) :
               message[o + 1] \in {"!", "#", "/"} =>
                   o # 0 /\ message[o] \notin WhitespaceChars )
       => /\ Len(parts) = 1
          /\ parts[1].kind = "Text"
          /\ parts[1].start = 0
          /\ parts[1].endExclusive = Len(message)

\* a result for a message with a registered name behind a leader in mid-word
C4_Witness ==
    /\ pc = "done"
    /\ Len(parts) = 1
    /\ \E o \in 1..(Len(message) - 2) :
          /\ message[o] \notin WhitespaceChars
          /\ message[o + 1] = "#"
          /\ <<message[o + 2]>> \in Variables

\* C5: a failure of provideSlashCommands makes the slash matcher decline:
\* the parse goes on to a result and no error reaches the caller.
C5_SubCommandFailureDeclines ==
    (\E k \in 1..Len(subLog) : subLog[k].failed) => pc \in {"awaitReturn", "scan", "done"}

\* C6: with every lookup succeeding the parse ends with a result: no range
\* is constructed with start greater than end, nothing is thrown.
C6_NoInvalidRange ==
    (\A k \in 1..Len(subLog) : ~subLog[k].failed) => pc # "threw"

\* the offsets at which the dynamic-reference matcher, looking into refs,
\* returns a part
DynamicOffsets(refs) ==
    {o \in 0..(Len(message) - 1) :
        /\ AtWordStart(message, o)
        /\ message[o + 1] = "#"
        /\ tryToParseVariable(Slice(message, o, Len(message)), o,
                              LineAt(message, o), ColumnAt(message, o)) = NoPart
        /\ variableWithArgReg(Slice(message, o, Len(message))) # NoMatch
        /\ <<LineAt(message, o), ColumnAt(message, o)>> \in RefPositions
        /\ refs[<<LineAt(message, o), ColumnAt(message, o)>>] # NoData}

\* C7: the reference list is read once, when the parse starts, and the
\* DynamicReference parts of the result are those of the list read then,
\* with its payloads, whatever the session's list has become meanwhile.
C7_ReferencesReadOnce ==
    /\ refReads = IF pc = "idle" THEN 0 ELSE 1
    /\ pc = "done" =>
          /\ {parts[k].start : k \in {j \in PartIndexes : parts[j].kind = "DynamicReference"}}
                = DynamicOffsets(references)
          /\ \A k \in PartIndexes :
                parts[k].kind = "DynamicReference" =>
                    parts[k].data = references[<<LineAt(message, parts[k].start),
                                                 ColumnAt(message, parts[k].start)>>]

\* a result with a DynamicReference part whose record was changed in the
\* session's list while the parse waited for provideSlashCommands
C7_Witness ==
    /\ pc = "done"
    /\ \E k \in PartIndexes, m \in 1..Len(mutations) :
          /\ parts[k].kind = "DynamicReference"
          /\ mutations[m].during = "awaitCall"
          /\ mutations[m].position = <<LineAt(message, parts[k].start),
                                       ColumnAt(message, parts[k].start)>>
          /\ sessionRefs[mutations[m].position] # parts[k].data

\* C8: an Agent part stands for '!name' with name a registered agent, no
\* part but the Text of the whitespace before it precedes it, and every
\* character of the message before it is whitespace.
C8_AgentComesFirst ==
    \A k \in PartIndexes :
        parts[k].kind = "Agent" =>
            /\ parts[k].name \in Agents
            /\ message[parts[k].start + 1] = "!"
            /\ Slice(message, parts[k].start + 1, parts[k].endExclusive) = parts[k].name
            /\ \A j \in 1..parts[k].start : message[j] \in WhitespaceChars
            /\ \/ k = 1 /\ parts[k].start = 0
               \/ /\ k = 2
                  /\ parts[1].kind = "Text"
                  /\ parts[1].start = 0
                  /\ parts[1].endExclusive = parts[k].start

\* the result for a message like "!a x": the Agent part, then Text
C8_Witness ==
    /\ pc = "done"
    /\ Len(parts) = 2
    /\ parts[1].kind = "Agent"
    /\ parts[2].kind = "Text"
    /\ NotBlank(parts[2].text)

\* part k is an Agent part and '/name' stands at offset o, at a word start,
\* with only whitespace between the two
SlashFollowsAgent(k, o) ==
    /\ parts[k].kind = "Agent"
    /\ parts[k].endExclusive < o
    /\ o < Len(message)
    /\ ~NotBlank(Slice(message, parts[k].endExclusive, o))
    /\ SlashTokenAt(message, o) # NoMatch

\* the name at o went to the agent's provideSlashCommands, once, and to
\* nothing else; with the name in the answer the parts are Agent, Text of
\* the whitespace, AgentSubcommand for '/name'; without it no part starts at o
ResolvedByAgent(k, o) ==
    LET name == SlashTokenAt(message, o).name IN
    /\ Len(subLog) = 1
    /\ subLog[1].offset = o
    /\ subLog[1].name = name
    /\ name \in subLog[1].answer =>
          /\ Len(parts) >= k + 2
          /\ parts[k + 1].kind = "Text"
          /\ parts[k + 1].start = parts[k].endExclusive
          /\ parts[k + 1].endExclusive = o
          /\ parts[k + 2].kind = "AgentSubcommand"
          /\ parts[k + 2].start = o
          /\ parts[k + 2].endExclusive = o + 1 + Len(name)
          /\ parts[k + 2].name = name
    /\ name \notin subLog[1].answer =>
          \A j \in PartIndexes : parts[j].start # o

\* C9 as claimed: ... and whatever follows the AgentSubcommand part is one
\* Text part.
C9_RemainderIsText ==
    pc = "done" =>
        \A k \in PartIndexes, o \in 0..Len(message) :
            SlashFollowsAgent(k, o) =>
                /\ ResolvedByAgent(k, o)
                /\ SlashTokenAt(message, o).name \in subLog[1].answer =>
                      \/ Len(parts) = k + 2
                      \/ Len(parts) = k + 3 /\ parts[k + 3].kind = "Text"

\* C9, amended: a '/name' that follows the Agent part after whitespace only
\* is resolved against the answer of the agent's provideSlashCommands alone;
\* with the name in the answer the result is Agent, Text of the whitespace,
\* AgentSubcommand for '/name', and the remainder is cut into Text, Variable
\* and DynamicReference parts, one Text part when no '#' stands at a word
\* start in it; without the name in the answer no part starts at that offset.
C9_SubcommandAfterAgent ==
    pc = "done" =>
        \A k \in PartIndexes, o \in 0..Len(message) :
            SlashFollowsAgent(k, o) =>
                /\ ResolvedByAgent(k, o)
                /\ SlashTokenAt(message, o).name \in subLog[1].answer =>
                      /\ \A j \in (k + 3)..Len(parts) :
                            parts[j].kind \in {"Text", "Variable", "DynamicReference"}
                      /\ (\A q \in o..(Len(message) - 1) :
                              ~(message[q + 1] = "#" /\ message[q] \in WhitespaceChars))
                         => \/ Len(parts) = k + 2
                            \/ Len(parts) = k + 3 /\ parts[k + 3].kind = "Text"

\* a result Agent, Text, AgentSubcommand, Text, Variable, the sub-command
\* being no command of the standalone registry
C9_Witness ==
    /\ pc = "done"
    /\ \E k \in PartIndexes, o \in 0..Len(message) :
          /\ SlashFollowsAgent(k, o)
          /\ SlashTokenAt(message, o).name \in subLog[1].answer
          /\ SlashTokenAt(message, o).name \notin SlashCommands
          /\ \E j \in (k + 3)..Len(parts) : parts[j].kind = "Variable"

\* C10: no result holds both an Agent part and a SlashCommand part.
C10_NoSlashCommandWithAgent ==
    ~(KindCount(parts, {"Agent"}) > 0 /\ KindCount(parts, {"SlashCommand"}) > 0)

\* a result with an Agent part for a message in which a command of the
\* standalone registry follows the agent
C10_Witness ==
    /\ pc = "done"
    /\ \E k \in PartIndexes, o \in 0..Len(message) :
          /\ SlashFollowsAgent(k, o)
          /\ SlashTokenAt(message, o).name \in SlashCommands

\* C11 as claimed: with no Agent and no SlashCommand part before it, a
\* '/name' at a word start gives a SlashCommand part over exactly '/name'
\* when name is a command of the standalone registry; otherwise no part
\* starts there and the token lies in a Text part.
C11_StandaloneSlashCommand ==
    pc = "done" =>
        \A o \in 0..(Len(message) - 1) :
            ( /\ AtWordStart(message, o)
              /\ SlashTokenAt(message, o) # NoMatch
              /\ \A k \in PartIndexes :
                    parts[k].kind \in {"Agent", "SlashCommand"} => parts[k].start >= o )
            => LET name == SlashTokenAt(message, o).name IN
               IF name \in SlashCommands
               THEN \E k \in PartIndexes :
                       /\ parts[k].kind = "SlashCommand"
                       /\ parts[k].start = o
                       /\ parts[k].endExclusive = o + 1 + Len(name)
                       /\ parts[k].name = name
               ELSE /\ \A k \in PartIndexes :
                          parts[k].start = o => parts[k].kind = "Text"
                    /\ \E k \in PartIndexes :
                          /\ parts[k].kind = "Text"
                          /\ parts[k].start <= o
                          /\ o + 1 + Len(name) <= parts[k].endExclusive

\* the token '#name' or '#name:digits' that starts at offset o of msg: the
\* longest name, and the digits after ':' when they end at a word boundary
VariableTokenAt(msg, o) ==
    LET n == IF o < Len(msg) /\ msg[o + 1] = "#" THEN RunLen(msg, o + 2, NameChars) ELSE 0
        d == IF o + 1 + n < Len(msg) /\ msg[o + 2 + n] = ":"
             THEN RunLen(msg, o + 3 + n, DigitChars) ELSE 0
        digits == d > 0 /\ (o + 2 + n + d = Len(msg) \/ msg[o + 3 + n + d] \notin WordChars)
    IN [isToken |-> n >= 1 /\ msg[o + 1 + n] \in WordChars,
        name |-> Slice(msg, o + 1, o + 1 + n),
        arg |-> IF digits THEN Slice(msg, o + 1 + n, o + 2 + n + d) ELSE <<>>,
        endExclusive |-> IF digits THEN o + 2 + n + d ELSE o + 1 + n]

C13_DynamicReferenceBacked ==
    \A o \in 0..(Len(message) - 1) :
        (i > o \/ pc = "done") =>
            LET pos == <<LineAt(message, o), ColumnAt(message, o)>>
                here == {k \in PartIndexes :
                            parts[k].kind = "DynamicReference" /\ parts[k].start = o}
                m == MatchVariableWithArgAt(message, o + 1)
            IN /\ here # {} <=>
                    /\ AtWordStart(message, o)
                    /\ message[o + 1] = "#"
                    /\ tryToParseVariable(Slice(message, o, Len(message)), o,
                                          pos[1], pos[2]) = NoPart
                    /\ m # NoMatch
                    /\ pos \in RefPositions
                    /\ references[pos] # NoData
               /\ \A k \in here :
                    /\ pos \in RefPositions
                    /\ parts[k].data = references[pos]
                    /\ parts[k].name = m.name
                    /\ parts[k].arg = m.arg

C15_EditorRangeParallel ==
    pc = "done" =>
        /\ \A k \in PartIndexes :
              parts[k].editorRange =
                  [startLineNumber |-> LineAt(message, parts[k].start),
                   startColumn |-> ColumnAt(message, parts[k].start),
                   endLineNumber |-> LineAt(message, parts[k].endExclusive),
                   endColumn |-> ColumnAt(message, parts[k].endExclusive)]
        /\ \A k \in 2..Len(parts) :
              /\ parts[k].editorRange.startLineNumber = parts[k - 1].editorRange.endLineNumber
              /\ parts[k].editorRange.startColumn = parts[k - 1].editorRange.endColumn
        /\ Len(parts) > 0 =>
              /\ parts[Len(parts)].editorRange.endLineNumber = LineAt(message, Len(message))
              /\ parts[Len(parts)].editorRange.endColumn = ColumnAt(message, Len(message))

\* C16: a message with no '!', '#' or '/' at offset 0 or after whitespace
\* gives exactly one Text part over [0, message.length) holding the whole
\* message when it is not empty, and no part at all when it is empty.
C16_NoLeaderGivesOneText ==
    ( /\ pc = "done"
      /\ \A o \in 0..(Len(message) - 1) :
            AtWordStart(message, o) => message[o + 1] \notin {"!", "#", "/"} )
    => IF Len(message) = 0
       THEN parts = <<>>
       ELSE /\ Len(parts) = 1
            /\ parts[1].kind = "Text"
            /\ parts[1].start = 0
            /\ parts[1].endExclusive = Len(message)
            /\ parts[1].text = message
            /\ subLog = <<>>

\* the result for a message whose only leaders stand in mid-word
C16_Witness ==
    /\ pc = "done"
    /\ Len(parts) = 1
    /\ parts[1].text = message
    /\ Len(message) >= 3
    /\ message[1] \notin {"!", "#", "/"}
    /\ \E o \in 1..(Len(message) - 1) :
          message[o] \notin WhitespaceChars /\ message[o + 1] \in {"!", "#", "/"}
    /\ \A o \in 1..(Len(message) - 1) :
          message[o] \in WhitespaceChars => message[o + 1] \notin {"!", "#", "/"}

\* C17: within one parse every step leaves the scan at its offset or moves
\* it to the next one, the part list of the next state begins with the part
\* list of this state, and while the call of provideSlashCommands for the
\* current offset is pending neither the offset nor the part list changes.
C17_SequentialScan ==
    [][ /\ i' \in {i, i + 1}
        /\ Len(parts') >= Len(parts)
        /\ SubSeq(parts', 1, Len(parts)) = parts
        /\ pc = "awaitCall" => (i' = i /\ parts' = parts)
        /\ pc \in {"done", "rejected", "threw"} => (i' = i /\ parts' = parts) ]_vars

\* a result of a parse that appended parts, waited for provideSlashCommands
\* and appended parts after the answer
C17_Witness ==
    /\ pc = "done"
    /\ Len(subLog) >= 1
    /\ \E k \in PartIndexes : parts[k].endExclusive <= subLog[1].offset
    /\ \E k \in PartIndexes : parts[k].start >= subLog[1].offset
    /\ \E k \in PartIndexes : parts[k].start > subLog[1].offset

\* C19 as claimed: the text a SlashCommand or AgentSubcommand part covers is
\* '/' followed by the name of its command, and the text a DynamicReference
\* part covers is '#', the name, ':' and the argument it carries: no part is
\* made from a match further along the remainder.
C19_MatchBeginsAtOffset ==
    \A k \in PartIndexes :
        LET covered == Slice(message, parts[k].start, parts[k].endExclusive) IN
        /\ parts[k].kind \in {"SlashCommand", "AgentSubcommand"} =>
              covered = <<"/">> \o parts[k].name
        /\ parts[k].kind = "DynamicReference" =>
              covered = <<"#">> \o parts[k].name \o <<":">> \o parts[k].arg

\* C20 as claimed: a Text part is put before a newly matched part only when
\* that part starts after offset 0 and after the end of the previous part,
\* so every Text part has start < endExclusive and a non-empty text.
C20_TextPartsNotEmpty ==
    \A k \in PartIndexes :
        parts[k].kind = "Text" =>
            /\ parts[k].start < parts[k].endExclusive
            /\ parts[k].text # <<>>

\* lines 42-94 run from offset o by an invocation of its own, the k-th call
\* of provideSlashCommands answered as log[k] records: how it ends, and the
\* parts it returns when it ends with a result
RECURSIVE ParseFrom(_, _, _, _, _, _, _, _)
ParseFrom(msg, refs, log, k, o, line, col, ps) ==
    IF o = Len(msg)
    THEN [pc |-> "done", parts |-> PartsAtEnd(ps, msg, line, col)]
    ELSE LET char == msg[o + 1]
             remaining == Slice(msg, o, Len(msg))
             v == tryToParseVariable(remaining, o, line, col)
             step == SlashCommandStep(remaining, msg, o, line, col, ps)
             called == Gate(msg, o) /\ char = chatSubcommandLeader /\ step.to = "call"
             newPart ==
                 IF ~Gate(msg, o) THEN NoPart
                 ELSE IF char = chatFileVariableLeader
                 THEN IF VariableMatched(v) THEN v
                      ELSE tryToParseDynamicVariable(remaining, o, line, col, refs)
                 ELSE IF char = chatAgentLeader
                 THEN tryToParseAgent(remaining, msg, o, line, col, ps)
                 ELSE IF char = chatSubcommandLeader
                 THEN IF called THEN SubCommandResult(step.part, log[k].answer)
                      ELSE step.part
                 ELSE NoPart
         IN IF called /\ k > Len(log) THEN [pc |-> "awaitCall", parts |-> <<>>]
            ELSE IF called /\ log[k].failed THEN [pc |-> "rejected", parts |-> <<>>]
            ELSE IF newPart # NoPart /\ o # 0 /\ InvalidOffsetRange(PreviousPartEnd(ps), o)
            THEN [pc |-> "threw", parts |-> <<>>]
            ELSE ParseFrom(msg, refs, log, IF called THEN k + 1 ELSE k, o + 1,
                           IF char = "\n" THEN line + 1 ELSE line,
                           IF char = "\n" THEN 1 ELSE col + 1,
                           PartsWith(ps, newPart, msg, o, line, col))

\* parseChatRequest run alone on msg with the reference list refs and the
\* answers of log
ParseAlone(msg, refs, log) == ParseFrom(msg, refs, log, 1, 0, 1, 1, <<>>)

\* how an invocation that is over has ended, with the parts of its result
Outcome(l) == [pc |-> l.pc, parts |-> IF l.pc = "done" THEN l.parts ELSE <<>>]

\* C18: of two invocations on the same parser that interleave at their
\* awaits, each ends as it ends when run alone on its message with the same
\* reference list and the same answers of provideSlashCommands: with the
\* same parts, or with the same rejection.
C18_InterleavedAsAlone ==
    \A l \in {Locals, waiting} :
        l.pc \in {"done", "rejected", "threw"} =>
            Outcome(l) = ParseAlone(l.message, sessionRefs, l.subLog)

\* one invocation has returned the result of a message with a sub-command
\* while the other, with another message, is still suspended in its call of
\* provideSlashCommands
C18_Witness ==
    /\ pc = "done"
    /\ Len(subLog) = 1
    /\ \E k \in PartIndexes : parts[k].kind = "AgentSubcommand"
    /\ waiting.pc = "awaitCall"
    /\ Len(waiting.parts) >= 1
    /\ waiting.message # message

\* the parts that let a '/name' at offset o still be a sub-command of the
\* agent: Agent parts and Text parts of whitespace only, and nothing but
\* whitespace between the end of the last part and o
DirectlyAfterAgent(ps, o) ==
    /\ \A k \in 1..Len(ps) :
          \/ ps[k].kind = "Agent"
          \/ /\ ps[k].kind = "Text"
             /\ \A c \in 1..Len(ps[k].text) : ps[k].text[c] \in WhitespaceChars
    /\ \A q \in (PreviousPartEnd(ps) + 1)..o : message[q] \in WhitespaceChars

\* C21: with an Agent part in the list, provideSlashCommands is called for a
\* '/name' only directly after the agent: while the call is pending, and
\* before every AgentSubcommand part, the list holds nothing but the Agent
\* part and Text of whitespace, and only whitespace lies between the last
\* part and the '/'.
C21_SubcommandOnlyAfterAgent ==
    /\ pc = "awaitCall" => DirectlyAfterAgent(parts, i)
    /\ \A k \in PartIndexes :
          parts[k].kind = "AgentSubcommand" =>
              /\ \A j \in 1..(k - 1) : parts[j].kind \in {"Agent", "Text"}
              /\ \A j \in 1..(k - 1) :
                    parts[j].kind = "Text" =>
                        \A c \in 1..Len(parts[j].text) : parts[j].text[c] \in WhitespaceChars

\* the slash matcher has declined a '/name' after the agent without a call:
\* a Variable part, or other text, stands between them
C21_Witness ==
    /\ pc = "awaitReturn"
    /\ awaited = NoPart
    /\ subLog = <<>>
    /\ SlashTokenAt(message, i) # NoMatch
    /\ SlashTokenAt(message, i).name \in SubCommandNames
    /\ \E k \in PartIndexes : parts[k].kind = "Agent"
    /\ \E k \in PartIndexes : parts[k].kind = "Variable"

\* how far a chain is from its end: 0 when it has ended, and less after
\* every step it takes
ChainRank(ch) ==
    CASE ch.state = "none" -> 4 * MAX_RETRIES + 5
      [] ch.state = "ended" -> 0
      [] ch.state = "session" -> 4 * (MAX_RETRIES - ch.retryCount) + 4
      [] ch.state = "fetch" -> 4 * (MAX_RETRIES - ch.retryCount) + 3
      [] ch.state = "refresh" -> 4 * (MAX_RETRIES - ch.retryCount) + 2
      [] ch.state = "timer" -> 4 * (MAX_RETRIES - ch.retryCount) + 1

\* C22: the chain of one accepted handleAgentCodeEdit calls fetch at most
\* MAX_RETRIES times; a retry is scheduled only after an attempt answered
\* with HTTP 401 and a token refresh, with the delay RETRY_DELAY_MS *
\* 2^retryCount; no session, an ok answer, another status or a thrown fetch
\* error end the chain; every step takes the chain nearer to its end, so it
\* has no endless run.
C22_RetryChainBounded ==
    /\ [](\A c \in Edits :
            /\ chains[c].attempts <= MAX_RETRIES
            /\ chains[c].retryCount <= MAX_RETRIES
            /\ ChainRank(chains[c]) >= 0
            /\ chains[c].state = "timer" =>
                  /\ chains[c].last = "unauthorized"
                  /\ chains[c].delay = RETRY_DELAY_MS * (2 ^ chains[c].retryCount)
                  /\ chains[c].attempts = chains[c].retryCount + 1
            /\ (chains[c].state = "session" /\ chains[c].retryCount > 0) =>
                  chains[c].last = "unauthorized"
            /\ chains[c].state = "ended" =>
                  chains[c].last \in {"exhausted", "noSession", "sessionError", "ok",
                                      "other", "error", "refreshError"})
    /\ [][\A c \in Edits :
            /\ (chains'[c].state # chains[c].state \/
                chains'[c].retryCount # chains[c].retryCount)
                  => ChainRank(chains'[c]) < ChainRank(chains[c])
            /\ (chains[c].state = "fetch" /\ chains'[c].state # "fetch"
                /\ chains'[c].last # "unauthorized") => chains'[c].state = "ended"
            /\ (chains[c].state = "session" /\ chains'[c].state \notin {"session", "fetch"})
                  => chains'[c].state = "ended"
            /\ chains'[c].state = "timer" => chains[c].state \in {"refresh", "timer"}
       ]_vars

\* a chain that ended after MAX_RETRIES attempts all answered with HTTP 401
C22_Witness ==
    \E c \in Edits :
        /\ chains[c].state = "ended"
        /\ chains[c].last = "exhausted"
        /\ chains[c].attempts = MAX_RETRIES
        /\ chains[c].delay = 16 * RETRY_DELAY_MS

\* C23: the persisted usage-event list is reset to empty only by a send
\* attempt that the server answered with ok.
C23_ResetOnlyAfterOk ==
    lastReset.by # 0 => lastReset.after = "ok"

\* the events of a sequence, as a set
EventsOf(batch) == {batch[k] : k \in 1..Len(batch)}

\* C24: no accepted usage event is in more than one batch the server
\* accepted, and a reset of the persisted list removes only events of the
\* batch that caused it.
C24_DeliveredOnceRemovedBySender ==
    /\ \A e \in Edits : accepted[e] <= 1
    /\ EventsOf(lastReset.removed) \subseteq EventsOf(lastReset.body)

\* the events a sequence of recording calls leaves in an empty session, in
\* the order of the calls
RECURSIVE SessionOf(_)
SessionOf(recordings) ==
    IF recordings = <<>>
    THEN <<>>
    ELSE LET before == SessionOf(SubSeq(recordings, 1, Len(recordings) - 1))
             recording == recordings[Len(recordings)]
         IN  IF recording.kind = "selection" /\ before # <<>>
                /\ ReplacesLast(before[Len(before)], recording.event.fs_file_path, recording.event.range)
             THEN [before EXCEPT ![Len(before)] = recording.event]
             ELSE Append(before, recording.event)

C26_ReplacesOnlySameFile ==
    lastOp.kind = "selection" =>
        LET before == lastOp.before
            last == before[Len(before)]
            new == lastOp.event
            replaces == /\ before # <<>>
                        /\ last.kind = "Selection"
                        /\ last.fs_file_path = new.fs_file_path
                        /\ \/ last.range.startPosition.line = new.range.startPosition.line
                           \/ last.range.endPosition.line = new.range.endPosition.line
        IN  /\ replaces => currentSession = [before EXCEPT ![Len(before)] = lastOp.event]
            /\ ~replaces => currentSession = Append(before, lastOp.event)
            /\ Len(currentSession) <= Len(before) + 1
            /\ \A k \in 1..(Len(before) - 1) : currentSession[k] = before[k]

C28_LoadingStatusDisabled ==
    \A p \in Invocations :
        (invocations[p].pc = "returned" /\ invocations[p].setCalled)
            => invocations[p].disableCalled

C30_LastChangeIsActive ==
    (pending = <<>> /\ lastChanged # NoElement) => lastChanged = activeSymbolInfo

====
